---- MODULE Spec2Model ----
(***************************************************************************)
(* Model of the Firestore repository layer (firestoreRepository.ts), the    *)
(* item service built on it (itemService.ts), the error classes            *)
(* (errors.ts) and the access-control decision procedure.                  *)
(*                                                                         *)
(* The backend is a set of named collections, each a finite map from       *)
(* document id to document data; document data is a finite map from field  *)
(* name to value.  Each repository function is an operator from the store  *)
(* before the call (and the backend's answer) to the store after the call  *)
(* and the value or error the caller receives.  Each action performs one   *)
(* whole call.  A transaction is the exception: the unit of work is the    *)
(* caller's code, so it advances one repository call at a time.            *)
(***************************************************************************)
EXTENDS Integers, Sequences, FiniteSets, TLC

(***************************************************************************)
(* Bounds of the model.                                                    *)
(***************************************************************************)
MaxDocs == 2        \* documents stored at one time, over all collections
MaxAttempts == 2    \* times the backend runs the unit of work of a transaction

(***************************************************************************)
(* Universe of inputs.                                                     *)
(***************************************************************************)
COLLECTION == "items"
Collections == {COLLECTION, "users"}
IdSeq == <<"a", "b">>               \* document ids, in the backend's order
Ids == {IdSeq[i] : i \in 1..Len(IdSeq)}
Undefined == "<undefined>"          \* an omitted optional argument
EmptyString == ""
Fields == {"id", "status"}
Values == {"a", "b"}
\* the values each field takes in stored and supplied data
FieldValues == [f \in Fields |-> IF f = "id" THEN {"a"} ELSE Values]
DocData ==
    UNION {{d \in [S -> Values] : \A f \in S : d[f] \in FieldValues[f]} :
           S \in SUBSET Fields}
FieldValuePair == [fieldName : Fields, fieldValue : Values]
\* fieldValuePairs arrays of no, one and two filters
FilterLists ==
    {<<>>} \cup {<<p>> : p \in FieldValuePair}
           \cup {<<p, q>> : p \in FieldValuePair, q \in FieldValuePair}
Refs == Collections \X Ids

(***************************************************************************)
(* Backend answers.  A call either goes through or is rejected with a raw  *)
(* backend error; a rejected write is not applied.                         *)
(***************************************************************************)
BackendOk == [name |-> "ok", code |-> Undefined, message |-> <<>>]
Unavailable == [name |-> "Error", code |-> "unavailable",
                message |-> <<"backend unavailable">>]
NotFoundRaw == [name |-> "Error", code |-> "not-found",
                message |-> <<"No document to update">>]
EmptyUpdateRaw == [name |-> "Error", code |-> Undefined,
                   message |-> <<"At least one field must be updated.">>]
ReadAfterWriteRaw == [name |-> "Error", code |-> Undefined,
                      message |-> <<"Firestore transactions require all reads to be executed before all writes.">>]
UnitOfWorkRaw == [name |-> "Error", code |-> Undefined,
                  message |-> <<"unit of work failed">>]
AbortedRaw == [name |-> "Error", code |-> "aborted",
               message |-> <<"Too much contention on these documents.">>]
BackendAnswers == {BackendOk, Unavailable}

(***************************************************************************)
(* errors.ts                                                               *)
(***************************************************************************)
FORBIDDEN == 403

AppError(name, message, code, statusCode) ==
    [name |-> name, message |-> message, code |-> code,
     statusCode |-> statusCode]

RepositoryError(message, code, statusCode) ==
    AppError("RepositoryError", message, code, statusCode)

UNAUTHORIZED == 401
AuthenticationError(message, code) ==
    [name |-> "AuthenticationError", message |-> message, code |-> code,
     statusCode |-> UNAUTHORIZED]

AuthorizationError_401(message, code) ==
    [name |-> "AuthorizationError", message |-> message, code |-> code,
     statusCode |-> 401]

AuthorizationError(message, code) ==
    [name |-> "AuthorizationError", message |-> message, code |-> code,
     statusCode |-> FORBIDDEN]

(***************************************************************************)
(* utils/errorUtils: the error classifier.                                 *)
(***************************************************************************)
getErrorMessage(error) == error.message

getErrorCode(error) ==
    IF error.code = Undefined THEN "UNKNOWN_ERROR" ELSE error.code

getFirebaseErrorStatusCode(error) ==
    CASE error.code = "not-found" -> 404
      [] error.code = "permission-denied" -> 403
      [] error.code = "already-exists" -> 409
      [] OTHER -> 500

(***************************************************************************)
(* What a call hands back to its caller.                                   *)
(***************************************************************************)
NoError == [name |-> "none"]
Void == [kind |-> "void"]
Ok(v) == [status |-> "ok", value |-> v, error |-> NoError]
Fail(e) == [status |-> "error", value |-> Void, error |-> e]
Pending == [status |-> "pending", value |-> Void, error |-> NoError]

IdValue(id) == [kind |-> "id", id |-> id]
DocumentSnapshot(id, data) ==
    [kind |-> "snapshot", id |-> id, exists |-> TRUE, data |-> data]
QuerySnapshot(docs) == [kind |-> "query", docs |-> docs]

(***************************************************************************)
(* The backend store.                                                      *)
(***************************************************************************)
EmptyStore == [c \in Collections |-> <<>>]
Put(coll, id, data) ==
    [i \in DOMAIN coll \cup {id} |-> IF i = id THEN data ELSE coll[i]]
Remove(coll, ids) == [i \in DOMAIN coll \ ids |-> coll[i]]
NumDocs(st) ==
    LET RECURSIVE Sum(_)
        Sum(S) == IF S = {} THEN 0
                  ELSE LET c == CHOOSE x \in S : TRUE
                       IN Cardinality(DOMAIN st[c]) + Sum(S \ {c})
    IN Sum(Collections)
HasRoom(st, c, id) == id \in DOMAIN st[c] \/ NumDocs(st) < MaxDocs

\* docs of a collection in the backend's default order (by document id)
CollectionDocs(st, c) ==
    LET present == SelectSeq(IdSeq, LAMBDA i : i \in DOMAIN st[c])
    IN [k \in 1..Len(present) |->
           DocumentSnapshot(present[k], st[c][present[k]])]

(***************************************************************************)
(* firestoreRepository.ts.  `be` is the backend's answer to the call.      *)
(***************************************************************************)
Wrapped(prefix, error) ==
    RepositoryError(prefix \o getErrorMessage(error), getErrorCode(error),
                    getFirebaseErrorStatusCode(error))

\* JavaScript truthiness of the optional string argument: `if (id)`
Truthy(id) == id # Undefined /\ id # EmptyString

\* docRef.set(data) keeps the fields already stored (as set with merge would)
createDocument_merge(st, collectionName, data, id, be, autoId) ==
    IF be # BackendOk
    THEN [store |-> st,
          result |-> Fail(Wrapped(<<"Failed to create document in ",
                                    collectionName, ": ">>, be))]
    ELSE LET docId == IF Truthy(id) THEN id ELSE autoId
             old == IF docId \in DOMAIN st[collectionName]
                    THEN st[collectionName][docId] ELSE <<>>
             new == [f \in DOMAIN old \cup DOMAIN data |->
                        IF f \in DOMAIN data THEN data[f] ELSE old[f]]
         IN [store |-> [st EXCEPT ![collectionName] = Put(@, docId, new)],
             result |-> Ok(IdValue(docId))]

createDocument(st, collectionName, data, id, be, autoId) ==
    IF be # BackendOk
    THEN [store |-> st,
          result |-> Fail(Wrapped(<<"Failed to create document in ",
                                    collectionName, ": ">>, be))]
    ELSE IF Truthy(id)
         THEN \* db.collection(collectionName).doc(id).set(data)
              [store |-> [st EXCEPT ![collectionName] = Put(@, id, data)],
               result |-> Ok(IdValue(id))]
         ELSE \* db.collection(collectionName).add(data)
              [store |-> [st EXCEPT ![collectionName] = Put(@, autoId, data)],
               result |-> Ok(IdValue(autoId))]

getDocuments(st, collectionName, be) ==
    IF be # BackendOk
    THEN [store |-> st,
          result |-> Fail(Wrapped(<<"Failed to fetch documents from ",
                                    collectionName, ": ">>, be))]
    ELSE [store |-> st,
          result |-> Ok(QuerySnapshot(
                        CollectionDocs(st, collectionName)))]

\* the catch block rewraps every error, the not-found one included
getDocumentById_rewrap(st, collectionName, id, be) ==
    LET thrown ==
            IF be # BackendOk THEN be
            ELSE IF id \notin DOMAIN st[collectionName]
            THEN RepositoryError(<<"Document not found in collection ",
                                   collectionName, " with id ", id>>,
                                 "DOCUMENT_NOT_FOUND", 404)
            ELSE NoError
    IN IF thrown = NoError
       THEN [store |-> st,
             result |-> Ok(DocumentSnapshot(id, st[collectionName][id]))]
       ELSE [store |-> st,
             result |-> Fail(Wrapped(<<"Failed to fetch document ", id,
                                       " from ", collectionName, ": ">>,
                                     thrown))]

getDocumentById(st, collectionName, id, be) ==
    LET thrown ==
            IF be # BackendOk THEN be
            ELSE IF id \notin DOMAIN st[collectionName]
            THEN RepositoryError(<<"Document not found in collection ",
                                   collectionName, " with id ", id>>,
                                 "DOCUMENT_NOT_FOUND", 404)
            ELSE NoError
    IN IF thrown = NoError
       THEN [store |-> st,
             result |-> Ok(DocumentSnapshot(id, st[collectionName][id]))]
       ELSE IF thrown.name = "RepositoryError"
       THEN [store |-> st, result |-> Fail(thrown)]
       ELSE [store |-> st,
             result |-> Fail(Wrapped(<<"Failed to fetch document ", id,
                                       " from ", collectionName, ": ">>,
                                     thrown))]

\* what DocumentReference.update(data) throws, if anything
UpdateThrown(st, collectionName, id, data, be) ==
    IF DOMAIN data = {} THEN EmptyUpdateRaw
    ELSE IF be # BackendOk THEN be
    ELSE IF id \notin DOMAIN st[collectionName] THEN NotFoundRaw
    ELSE NoError

\* update replaces the document by the supplied data
updateDocument_replace(st, collectionName, id, data, be) ==
    LET thrown == UpdateThrown(st, collectionName, id, data, be)
    IN IF thrown = NoError
       THEN [store |-> [st EXCEPT ![collectionName] = Put(@, id, data)],
             result |-> Ok(Void)]
       ELSE [store |-> st,
             result |-> Fail(Wrapped(<<"Failed to update document ", id,
                                       " in ", collectionName, ": ">>,
                                     thrown))]

\* update writes with set-and-merge, which creates a missing document
updateDocument_upsert(st, collectionName, id, data, be) ==
    LET thrown == IF DOMAIN data = {} THEN EmptyUpdateRaw
                  ELSE IF be # BackendOk THEN be ELSE NoError
        old == IF id \in DOMAIN st[collectionName]
               THEN st[collectionName][id] ELSE <<>>
    IN IF thrown = NoError
       THEN [store |-> [st EXCEPT ![collectionName] =
                           Put(@, id,
                               [f \in DOMAIN old \cup DOMAIN data |->
                                   IF f \in DOMAIN data THEN data[f]
                                   ELSE old[f]])],
             result |-> Ok(Void)]
       ELSE [store |-> st,
             result |-> Fail(Wrapped(<<"Failed to update document ", id,
                                       " in ", collectionName, ": ">>,
                                     thrown))]

updateDocument(st, collectionName, id, data, be) ==
    LET thrown == UpdateThrown(st, collectionName, id, data, be)
    IN IF thrown = NoError
       THEN [store |-> [st EXCEPT ![collectionName][id] =
                           [f \in DOMAIN @ \cup DOMAIN data |->
                               IF f \in DOMAIN data THEN data[f] ELSE @[f]]],
             result |-> Ok(Void)]
       ELSE [store |-> st,
             result |-> Fail(Wrapped(<<"Failed to update document ", id,
                                       " in ", collectionName, ": ">>,
                                     thrown))]

\* docRef.delete() is issued even when a transaction is supplied
deleteDocument_direct(st, staged, collectionName, id, transaction, be) ==
    IF be # BackendOk
    THEN [store |-> st, staged |-> staged,
          result |-> Fail(Wrapped(<<"Failed to delete document ", id,
                                    " from ", collectionName, ": ">>, be))]
    ELSE [store |-> [st EXCEPT ![collectionName] = Remove(@, {id})],
          staged |-> staged, result |-> Ok(Void)]

\* `transaction` is Undefined or the handle of the running transaction;
\* `staged` is that transaction's write batch (the references to delete)
deleteDocument(st, staged, collectionName, id, transaction, be) ==
    IF transaction # Undefined
    THEN \* transaction.delete(docRef): staged, no backend call
         [store |-> st, staged |-> staged \cup {<<collectionName, id>>},
          result |-> Ok(Void)]
    ELSE IF be # BackendOk
    THEN [store |-> st, staged |-> staged,
          result |-> Fail(Wrapped(<<"Failed to delete document ", id,
                                    " from ", collectionName, ": ">>, be))]
    ELSE \* docRef.delete(): deleting a missing document succeeds
         [store |-> [st EXCEPT ![collectionName] = Remove(@, {id})],
          staged |-> staged, result |-> Ok(Void)]

\* query.where(fieldName, "==", fieldValue): a document without the field
\* does not match
Where(matching, coll, pair) ==
    {i \in matching : /\ pair.fieldName \in DOMAIN coll[i]
                      /\ coll[i][pair.fieldName] = pair.fieldValue}

\* a later where() replaces the query instead of narrowing it
BuildQuery_last(coll, fieldValuePairs) ==
    IF Len(fieldValuePairs) = 0 THEN DOMAIN coll
    ELSE Where(DOMAIN coll, coll, fieldValuePairs[Len(fieldValuePairs)])

\* the ids the query built by the forEach over fieldValuePairs selects
BuildQuery(coll, fieldValuePairs) ==
    LET RECURSIVE Narrow(_, _)
        Narrow(matching, k) ==
            IF k > Len(fieldValuePairs) THEN matching
            ELSE Narrow(Where(matching, coll, fieldValuePairs[k]), k + 1)
    IN Narrow(DOMAIN coll, 1)

\* fieldValuePairs.map(`${fieldName} == ${fieldValue}`).join(" AND "): the
\* rendered predicate is kept as one opaque piece of the message text
fieldValueString(fieldValuePairs) == <<"${fieldValueString}">>

\* the batch deletes its documents one at a time and stops after the first
batchCommit_first(st, collectionName, read) ==
    [st EXCEPT ![collectionName] =
        Remove(@, IF read = {} THEN {} ELSE {CHOOSE i \in read : TRUE})]

\* batch.delete(doc.ref) for each document read, then batch.commit(): the
\* documents are deleted by reference, all in one write
batchCommit(st, collectionName, read) ==
    [st EXCEPT ![collectionName] = Remove(@, read)]

deleteDocumentsByFieldValues(st, staged, collectionName, fieldValuePairs, transaction, be) ==
    LET matching == BuildQuery(st[collectionName], fieldValuePairs)
        thrown ==
            IF transaction # Undefined /\ staged # {} THEN ReadAfterWriteRaw
            ELSE IF be # BackendOk THEN be
            ELSE NoError
    IN IF thrown # NoError
       THEN [store |-> st, staged |-> staged,
             result |-> Fail(Wrapped(
                 <<"Failed to delete documents from ", collectionName,
                   " where ">> \o fieldValueString(fieldValuePairs)
                 \o <<": ">>, thrown))]
       ELSE IF transaction # Undefined
       THEN \* transaction.get(query), then transaction.delete(doc.ref) each
            [store |-> st,
             staged |-> staged \cup {<<collectionName, i>> : i \in matching},
             result |-> Ok(Void)]
       ELSE \* query.get(), then one batch commit of the deletes
            [store |-> batchCommit(st, collectionName, matching),
             staged |-> staged, result |-> Ok(Void)]

\* query.get() in place of transaction.get(query): the documents are read
\* outside the transaction
transactionGet_unregistered(reads, collectionName, matching) == reads

\* transaction.get(query): the documents read become part of the
\* transaction's read set, which the backend checks when it commits
transactionGet(reads, collectionName, matching) ==
    reads \cup {<<collectionName, i>> : i \in matching}

\* the backend's commit of a write batch of deletes
Commit(st, staged) ==
    [c \in Collections |-> Remove(st[c], {i \in Ids : <<c, i>> \in staged})]

\* a RepositoryError raised by the unit of work is passed on as it is
runTransaction_rethrow(st, staged, thrown, be) ==
    LET error == IF thrown # NoError THEN thrown
                 ELSE IF be # BackendOk THEN be ELSE NoError
    IN IF error = NoError
       THEN [store |-> Commit(st, staged), result |-> Ok(Void)]
       ELSE IF error.name = "RepositoryError"
       THEN [store |-> st, result |-> Fail(error)]
       ELSE [store |-> st,
             result |-> Fail(Wrapped(<<"Transaction failed: ">>, error))]

\* `thrown` is what the unit of work raised (NoError when it returned);
\* `be` is the backend's answer to the commit that follows a return
runTransaction(st, staged, thrown, be) ==
    LET error == IF thrown # NoError THEN thrown
                 ELSE IF be # BackendOk THEN be ELSE NoError
    IN IF error = NoError
       THEN [store |-> Commit(st, staged), result |-> Ok(Void)]
       ELSE [store |-> st,
             result |-> Fail(Wrapped(<<"Transaction failed: ">>, error))]

(***************************************************************************)
(* itemService.ts                                                          *)
(***************************************************************************)
\* the object literal { id: id, ...data }: a later key overrides an earlier
Spread(id, data) ==
    [f \in {"id"} \cup DOMAIN data |->
        IF f \in DOMAIN data THEN data[f] ELSE id]

getAllItems(st, be) ==
    LET r == getDocuments(st, COLLECTION, be)
    IN IF r.result.status # "ok" THEN r
       ELSE LET docs == r.result.value.docs
            IN [store |-> r.store,
                result |-> Ok([kind |-> "items",
                               items |-> [k \in 1..Len(docs) |->
                                   Spread(docs[k].id, docs[k].data)]])]

createItem(st, item, be, autoId) ==
    LET r == createDocument(st, COLLECTION, item, Undefined, be, autoId)
    IN IF r.result.status # "ok" THEN r
       ELSE [store |-> r.store,
             result |-> Ok([kind |-> "item",
                            item |-> Spread(r.result.value.id, item)])]

updateItem(st, id, item, be) ==
    LET r == updateDocument(st, COLLECTION, id, item, be)
    IN IF r.result.status # "ok" THEN r
       ELSE [store |-> r.store,
             result |-> Ok([kind |-> "item", item |-> Spread(id, item)])]

deleteItem(st, id, be) ==
    LET r == deleteDocument(st, {}, COLLECTION, id, Undefined, be)
    IN [store |-> r.store, result |-> r.result]

(***************************************************************************)
(* middleware/authorize: the access-control decision procedure.            *)
(***************************************************************************)
Roles == {"admin", "manager", "user"}
Subjects == [id : {"u1", "u2"}, roles : SUBSET Roles]
Requirements ==
    [hasRole : SUBSET Roles]
        \cup [hasRole : SUBSET Roles, allowSameUser : BOOLEAN]
OwnerIds == {Undefined, "u1", "u2"}
AuthInputs ==
    [subject : Subjects, requirement : Requirements,
     resourceOwnerId : OwnerIds]

authorize(subject, requirement, resourceOwnerId) ==
    IF subject.roles \cap requirement.hasRole # {} THEN Ok(Void)
    ELSE IF /\ "allowSameUser" \in DOMAIN requirement
            /\ requirement.allowSameUser
            /\ resourceOwnerId # Undefined
            /\ resourceOwnerId = subject.id
    THEN Ok(Void)
    ELSE Fail(AuthorizationError(<<"Forbidden: insufficient role">>,
                                 "FORBIDDEN"))

VARIABLES
    store,      \* the backend: collection name -> (document id -> data)
    last,       \* the most recent call: its name and arguments
    result,     \* what that call handed to its caller
    txState,    \* "running" while a unit of work is executing
    txStaged,   \* the write batch of the running transaction
    txBefore,   \* the store when the running transaction was started
    authIn,     \* the most recent input of authorize
    authOut,    \* its decision
    batch,      \* the standalone batch delete in flight: what it read
    txRun,      \* the attempts of the runTransaction call among other clients
    req         \* the HTTP request on the item routes and how far it has got
vars ==
    <<store, last, result, txState, txStaged, txBefore, authIn, authOut,
      batch, txRun, req>>
\* the variables the repository calls of one request at a time leave alone
aside == <<authIn, authOut, batch, txRun, req>>

TypeOK ==
    /\ store \in [Collections -> UNION {[S -> DocData] : S \in SUBSET Ids}]
    /\ txState \in {"idle", "running"}
    /\ txStaged \subseteq Refs
    /\ result.status \in {"ok", "error", "pending"}

\* how many documents of st are no longer in st2
Removed(st, st2) ==
    Cardinality({ref \in Refs : /\ ref[2] \in DOMAIN st[ref[1]]
                                /\ ref[2] \notin DOMAIN st2[ref[1]]})

\* the record of a call: its name, its collection and id arguments, the
\* number of writes its transaction had staged when it settled, and the
\* number of documents it removed
NoCall ==
    [op |-> "none", col |-> Undefined, id |-> Undefined, staged |-> 0,
     removed |-> 0]
NoBatch ==
    [state |-> "idle", col |-> Undefined, pairs |-> <<>>, read |-> {},
     inserted |-> {}]
NoRequest ==
    [route |-> "none", credentials |-> [id |-> Undefined, roles |-> {}],
     id |-> Undefined,
     body |-> <<>>, valid |-> FALSE, at |-> 0, passed |-> <<>>]
NoRun == [attempt |-> 0, reads |-> {}, stale |-> FALSE, seen |-> <<>>]
NoAuth == [subject |-> [id |-> "u1", roles |-> {}],
           requirement |-> [hasRole |-> {}],
           resourceOwnerId |-> Undefined]

Init ==
    /\ store = EmptyStore
    /\ last = NoCall
    /\ result = Pending
    /\ txState = "idle"
    /\ txStaged = {}
    /\ txBefore = EmptyStore
    /\ authIn = NoAuth
    /\ authOut = Pending
    /\ batch = NoBatch
    /\ txRun = NoRun
    /\ req = NoRequest

\* one whole call outside a transaction: its effect on the store and what
\* the caller receives
Call(op, c, id, r) ==
    /\ txState = "idle"
    /\ store' = r.store
    /\ result' = r.result
    /\ last' = [op |-> op, col |-> c, id |-> id, staged |-> 0,
                removed |-> Removed(store, r.store)]
    /\ txBefore' = r.store
    /\ UNCHANGED <<txState, txStaged, aside>>

IdArgs == Ids \cup {Undefined, EmptyString}
\* the ids the backend may generate for add(): any id not in the collection
AutoIds(st, c, id) == IF Truthy(id) THEN {Undefined} ELSE Ids \ DOMAIN st[c]

\* a call the backend rejects fails the same way whatever the data
Rejections == BackendAnswers \ {BackendOk}
AnyData == CHOOSE d \in DocData : DOMAIN d # {}

CreateDocument ==
    \E c \in Collections, id \in IdArgs :
        \/ \E data \in DocData, autoId \in AutoIds(store, c, id) :
              /\ HasRoom(store, c, IF Truthy(id) THEN id ELSE autoId)
              /\ Call("createDocument", c, id,
                      createDocument(store, c, data, id, BackendOk, autoId))
        \/ \E be \in Rejections :
              Call("createDocument", c, id,
                   createDocument(store, c, AnyData, id, be, Undefined))

GetDocuments ==
    \E c \in Collections, be \in BackendAnswers :
        Call("getDocuments", c, Undefined, getDocuments(store, c, be))

GetDocumentById ==
    \E c \in Collections, id \in Ids, be \in BackendAnswers :
        Call("getDocumentById", c, id, getDocumentById(store, c, id, be))

UpdateDocument ==
    \E c \in Collections, id \in Ids :
        \/ \E data \in DocData :
              Call("updateDocument", c, id,
                   updateDocument(store, c, id, data, BackendOk))
        \/ \E be \in Rejections :
              Call("updateDocument", c, id,
                   updateDocument(store, c, id, AnyData, be))

DeleteDocument ==
    \E c \in Collections, id \in Ids, be \in BackendAnswers :
        LET r == deleteDocument(store, {}, c, id, Undefined, be)
        IN Call("deleteDocument", c, id,
                [store |-> r.store, result |-> r.result])

DeleteDocumentsByFieldValues ==
    \E c \in Collections, pairs \in FilterLists, be \in BackendAnswers :
        LET r == deleteDocumentsByFieldValues(store, {}, c, pairs,
                                              Undefined, be)
        IN Call("deleteDocumentsByFieldValues", c, Undefined,
                [store |-> r.store, result |-> r.result])

(***************************************************************************)
(* runTransaction(operations): db.runTransaction calls the unit of work    *)
(* with a transaction handle; the unit of work makes repository calls with *)
(* that handle and then returns or raises.                                 *)
(***************************************************************************)
Transaction == "tx"
TxCall ==
    [op |-> "runTransaction", col |-> Undefined, id |-> Undefined,
     staged |-> 0, removed |-> 0]

TxBegin ==
    /\ txState = "idle"
    /\ txState' = "running"
    /\ txStaged' = {}
    /\ last' = TxCall
    /\ result' = Pending
    /\ txBefore' = store
    /\ UNCHANGED <<store, aside>>

\* runTransaction settles: the caller receives r.result
TxEnd(r) ==
    /\ store' = r.store
    /\ result' = r.result
    /\ txState' = "idle"
    /\ txStaged' = {}
    /\ txBefore' = r.store
    /\ last' = [TxCall EXCEPT !.staged = Cardinality(txStaged),
                              !.removed = Removed(store, r.store)]
    /\ UNCHANGED <<aside>>

\* the unit of work calls deleteDocument(c, id, transaction)
TxDeleteDocument ==
    /\ txState = "running"
    /\ \E c \in Collections, id \in Ids :
        LET r == deleteDocument(store, txStaged, c, id, Transaction,
                                BackendOk)
        IN /\ store' = r.store
           /\ txStaged' = r.staged
           /\ UNCHANGED <<last, result, txState, txBefore, aside>>

\* the unit of work calls deleteDocumentsByFieldValues(c, pairs, transaction)
\* and lets an error of that call propagate
TxDeleteDocumentsByFieldValues ==
    /\ txState = "running"
    /\ \E c \in Collections, pairs \in FilterLists, be \in BackendAnswers :
        LET r == deleteDocumentsByFieldValues(store, txStaged, c, pairs,
                                              Transaction, be)
        IN IF r.result.status = "ok"
           THEN /\ store' = r.store
                /\ txStaged' = r.staged
                /\ UNCHANGED <<last, result, txState, txBefore, aside>>
           ELSE TxEnd(runTransaction(r.store, r.staged, r.result.error,
                                     BackendOk))

\* the unit of work returns: the backend commits the staged writes
TxReturn ==
    /\ txState = "running"
    /\ \E be \in BackendAnswers :
        TxEnd(runTransaction(store, txStaged, NoError, be))

\* the unit of work raises
TxRaise ==
    /\ txState = "running"
    /\ TxEnd(runTransaction(store, txStaged, UnitOfWorkRaw, BackendOk))

Next ==
    \/ CreateDocument
    \/ GetDocuments
    \/ GetDocumentById
    \/ UpdateDocument
    \/ DeleteDocument
    \/ DeleteDocumentsByFieldValues
    \/ TxBegin
    \/ TxDeleteDocument
    \/ TxDeleteDocumentsByFieldValues
    \/ TxReturn
    \/ TxRaise

Spec == Init /\ [][Next]_vars

(***************************************************************************)
(* The item service on its own: every call goes to the items collection.   *)
(***************************************************************************)
CreateItem ==
    \/ \E item \in DocData, autoId \in Ids \ DOMAIN store[COLLECTION] :
          /\ HasRoom(store, COLLECTION, autoId)
          /\ Call("createItem", COLLECTION, Undefined,
                  createItem(store, item, BackendOk, autoId))
    \/ \E be \in Rejections :
          Call("createItem", COLLECTION, Undefined,
               createItem(store, AnyData, be, Undefined))

GetAllItems ==
    \E be \in BackendAnswers :
        Call("getAllItems", COLLECTION, Undefined, getAllItems(store, be))

UpdateItem ==
    \E id \in Ids :
        \/ \E item \in DocData :
              Call("updateItem", COLLECTION, id,
                   updateItem(store, id, item, BackendOk))
        \/ \E be \in Rejections :
              Call("updateItem", COLLECTION, id,
                   updateItem(store, id, AnyData, be))

DeleteItem ==
    \E id \in Ids, be \in BackendAnswers :
        Call("deleteItem", COLLECTION, id, deleteItem(store, id, be))

NextItems == CreateItem \/ GetAllItems \/ UpdateItem \/ DeleteItem

SpecItems == Init /\ [][NextItems]_vars

(***************************************************************************)
(* The access-control decision on its own, over every input.               *)
(***************************************************************************)
Authorize ==
    \E in \in AuthInputs :
        /\ authIn' = in
        /\ authOut' = authorize(in.subject, in.requirement,
                                in.resourceOwnerId)
        /\ UNCHANGED <<store, last, result, txState, txStaged, txBefore,
                       batch, txRun, req>>

NextAuth == Authorize

SpecAuth == Init /\ [][NextAuth]_vars

(***************************************************************************)
(* Properties.                                                             *)
(***************************************************************************)
\* what is left of a collection once the documents `ids` are gone
Without(coll, ids, after) ==
    /\ DOMAIN after = DOMAIN coll \ ids
    /\ \A i \in DOMAIN after : after[i] = coll[i]

\* C1: the writes staged under a transaction are applied all together or
\* not at all.  While the unit of work runs, staging a write changes no
\* collection; when runTransaction fails (the unit of work raised, or the
\* commit was rejected) the caller gets a RepositoryError and every
\* collection is as it was when runTransaction was called; when it succeeds
\* exactly the staged documents are gone and nothing else has changed.
C1_TransactionAtomic ==
    [][txState = "running" =>
        /\ txState' = "running" => store' = txBefore
        /\ txState' = "idle" /\ result'.status = "error" =>
              /\ store' = txBefore
              /\ result'.error.name = "RepositoryError"
        /\ txState' = "idle" /\ result'.status = "ok" =>
              \A c \in Collections :
                  Without(txBefore[c], {i \in Ids : <<c, i>> \in txStaged},
                          store'[c])
        /\ txState' = "idle" => result'.status \in {"ok", "error"}
        /\ TxRaise => result'.status = "error"]_vars

\* C1 witness: runTransaction has failed after its unit of work staged the
\* delete of documents, and a document is still stored
C1_Witness ==
    /\ last.op = "runTransaction"
    /\ last.staged > 0
    /\ result.status = "error"
    /\ NumDocs(store) > 0

\* every document other than (c, id) is the same in st and st2
OthersUnchanged(st, st2, c, id) ==
    \A c2 \in Collections :
        /\ DOMAIN st2[c2] \ (IF c2 = c THEN {id} ELSE {})
              = DOMAIN st[c2] \ (IF c2 = c THEN {id} ELSE {})
        /\ \A i \in DOMAIN st[c2] :
              (c2 # c \/ i # id) => st2[c2][i] = st[c2][i]

\* C2: after updateDocument(c, id, data) succeeds on an existing document,
\* each field named in data has the supplied value, each field not named
\* has its value from before (and no field appears or disappears), the
\* document is still stored under id, and every other document of every
\* collection is unchanged.
C2_UpdateFrame ==
    \A c \in Collections, id \in Ids, data \in DocData :
        LET r == updateDocument(store, c, id, data, BackendOk)
        IN (id \in DOMAIN store[c] /\ r.result.status = "ok") =>
              /\ id \in DOMAIN r.store[c]
              /\ DOMAIN r.store[c][id] = DOMAIN store[c][id] \cup DOMAIN data
              /\ \A f \in DOMAIN data : r.store[c][id][f] = data[f]
              /\ \A f \in DOMAIN store[c][id] \ DOMAIN data :
                    r.store[c][id][f] = store[c][id][f]
              /\ OthersUnchanged(store, r.store, c, id)

\* C2 witness: updateDocument has succeeded on a document that holds two
\* fields, while another document is stored
C2_Witness ==
    /\ last.op = "updateDocument"
    /\ result.status = "ok"
    /\ DOMAIN store[last.col][last.id] = Fields
    /\ NumDocs(store) > 1

\* the two halves of C3 that do not depend on what "an id is supplied" means:
\* the document read back is the input data under the returned id, and a
\* generated id is fresh and leaves the stored documents alone
CreateRoundTrip(c, id, data, autoId) ==
    LET r == createDocument(store, c, data, id, BackendOk, autoId)
        rid == r.result.value.id
        g == getDocumentById(r.store, c, rid, BackendOk)
    IN /\ r.result.status = "ok"
       /\ g.result.status = "ok"
       /\ g.result.value.id = rid
       /\ g.result.value.data = data
       /\ OthersUnchanged(store, r.store, c, rid)

ReturnedId(c, id, data, autoId) ==
    createDocument(store, c, data, id, BackendOk, autoId).result.value.id

C4_DeleteThenGetNotFound ==
    /\ \A c \in Collections : \A id \in Ids \ DOMAIN store[c] :
          LET g == getDocumentById(store, c, id, BackendOk)
          IN /\ g.result.status = "error"
             /\ g.result.error.name = "RepositoryError"
             /\ g.result.error.code = "DOCUMENT_NOT_FOUND"
             /\ g.result.error.statusCode = 404
             /\ Head(g.result.error.message)
                   = "Document not found in collection "
             /\ g.store = store
    /\ (last.op = "deleteDocument" /\ result.status = "ok") =>
          last.id \notin DOMAIN store[last.col]

\* C4 witness: deleteDocument has just removed a document
C4_Witness ==
    /\ last.op = "deleteDocument"
    /\ result.status = "ok"
    /\ last.removed = 1
    /\ getDocumentById(store, last.col, last.id, BackendOk).result.status
          = "error"

\* C5: without a transaction, deleteDocumentsByFieldValues(c, pairs) removes
\* exactly the documents of c in which every pair's field is present with
\* the pair's value (every document of c when pairs is empty), and leaves
\* the other documents of c and every other collection as they were.
C5_DeleteByFieldValues ==
    \A c \in Collections, pairs \in FilterLists :
        LET r == deleteDocumentsByFieldValues(store, {}, c, pairs,
                                              Undefined, BackendOk)
            matches(d) ==
                \A k \in 1..Len(pairs) :
                    /\ pairs[k].fieldName \in DOMAIN d
                    /\ d[pairs[k].fieldName] = pairs[k].fieldValue
        IN /\ r.result.status = "ok"
           /\ Without(store[c],
                      {i \in DOMAIN store[c] : matches(store[c][i])},
                      r.store[c])
           /\ \A c2 \in Collections \ {c} : r.store[c2] = store[c2]

\* C5 witness: a batch delete by field values has removed a document of a
\* collection and left another one there
C5_Witness ==
    /\ last.op = "deleteDocumentsByFieldValues"
    /\ result.status = "ok"
    /\ last.removed > 0
    /\ DOMAIN store[last.col] # {}

\* C6: authorize permits exactly when the subject's roles intersect
\* requirement.hasRole, or requirement.allowSameUser is true and
\* resourceOwnerId is defined and equal to subject.id; otherwise it raises
\* an AuthorizationError with status 403.
C6_AuthorizeDecision ==
    authOut.status # "pending" =>
        LET subject == authIn.subject
            requirement == authIn.requirement
            owner == authIn.resourceOwnerId
            roleMatch == \E role \in subject.roles :
                             role \in requirement.hasRole
            sameUser == /\ "allowSameUser" \in DOMAIN requirement
                        /\ requirement.allowSameUser = TRUE
                        /\ owner # Undefined
                        /\ owner = subject.id
        IN IF roleMatch \/ sameUser
           THEN authOut.status = "ok"
           ELSE /\ authOut.status = "error"
                /\ authOut.error.name = "AuthorizationError"
                /\ authOut.error.statusCode = 403

\* C6 witness: a subject without a required role is denied although it owns
\* the resource, because allowSameUser is absent
C6_Witness ==
    /\ authOut.status = "error"
    /\ authIn.resourceOwnerId = authIn.subject.id
    /\ "allowSameUser" \notin DOMAIN authIn.requirement
    /\ authIn.subject.roles # {}

\* C7: every failure a caller receives, from the six document operations
\* and from runTransaction, is a RepositoryError with message, code and
\* statusCode; a failure of runTransaction has a message that starts with
\* "Transaction failed: "; and the error a transactional
\* deleteDocumentsByFieldValues raises into the unit of work is a
\* RepositoryError too.
C7_FailuresAreRepositoryErrors ==
    /\ result.status = "error" =>
          /\ result.error.name = "RepositoryError"
          /\ {"message", "code", "statusCode"} \subseteq DOMAIN result.error
          /\ Len(result.error.message) > 0
          /\ last.op = "runTransaction" =>
                Head(result.error.message) = "Transaction failed: "
    /\ \A c \in Collections, pairs \in FilterLists, be \in BackendAnswers :
          LET r == deleteDocumentsByFieldValues(store, txStaged, c, pairs,
                                                Transaction, be)
          IN r.result.status = "error" =>
                r.result.error.name = "RepositoryError"

\* C7 witness: runTransaction has failed because a repository call of its
\* unit of work raised a RepositoryError
C7_Witness ==
    /\ last.op = "runTransaction"
    /\ result.status = "error"
    /\ Len(result.error.message) > 1
    /\ result.error.message[2] = "Failed to delete documents from "

\* C9: updateDocument on an id that has no document in the collection fails
\* with a RepositoryError, whatever the data and the backend's answer, and
\* leaves every collection as it was.
C9_UpdateMissingFails ==
    \A c \in Collections, data \in DocData, be \in BackendAnswers :
        \A id \in Ids \ DOMAIN store[c] :
            LET r == updateDocument(store, c, id, data, be)
            IN /\ r.result.status = "error"
               /\ r.result.error.name = "RepositoryError"
               /\ r.store = store

\* C9 witness: updateDocument has failed because the document is missing
C9_Witness ==
    /\ last.op = "updateDocument"
    /\ result.status = "error"
    /\ result.error.code = "not-found"
    /\ last.id \notin DOMAIN store[last.col]

\* C8 as stated: getAllItems returns exactly one entry per stored item; the
\* id of the entry is the id the document is stored under, whatever fields
\* the document holds, and its other fields are the stored fields.
C8_GetAllItemsIds ==
    LET r == getAllItems(store, BackendOk)
        items == r.result.value.items
        stored == store[COLLECTION]
    IN /\ r.result.status = "ok"
       /\ Len(items) = Cardinality(DOMAIN stored)
       /\ \A i \in DOMAIN stored :
             \E k \in 1..Len(items) :
                 /\ items[k].id = i
                 /\ \A k2 \in 1..Len(items) : items[k2].id = i => k2 = k
                 /\ DOMAIN items[k] \ {"id"} = DOMAIN stored[i] \ {"id"}
                 /\ \A f \in DOMAIN stored[i] \ {"id"} :
                       items[k][f] = stored[i][f]

\* C10 as stated: deleteItem(id) fails when no item with that id exists
C10_DeleteMissingItemFails ==
    (last.op = "deleteItem" /\ last.removed = 0) => result.status = "error"

\* C14 as stated: when createItem succeeds, the id of the item it returns is
\* the id the document was stored under, also for a body that carries an id
\* field: the document stored at the returned id is the item returned.
C14_CreateItemReturnsStoredId ==
    (last.op = "createItem" /\ result.status = "ok") =>
        LET returned == result.value.item
        IN /\ returned.id \in DOMAIN store[COLLECTION]
           /\ \A f \in DOMAIN store[COLLECTION][returned.id] :
                 returned[f] = store[COLLECTION][returned.id][f]


(***************************************************************************)
(* deleteDocumentsByFieldValues without a transaction, step by step:       *)
(* `await query.get()` and `await batch.commit()` are two round trips to   *)
(* the backend, and the requests of other clients are served in between.   *)
(***************************************************************************)
BatchCall(c, removed) ==
    [op |-> "deleteDocumentsByFieldValues", col |-> c, id |-> Undefined,
     staged |-> 0, removed |-> removed]

\* the filters of the calls followed step by step: none, or one pair
BatchFilters == {f \in FilterLists : Len(f) <= 1}

\* query.get(): the snapshot holds the documents matching now; a rejected
\* read fails the call
BatchRead ==
    /\ txState = "idle"
    /\ batch.state # "read"
    /\ \E c \in Collections, pairs \in BatchFilters :
          /\ last' = BatchCall(c, 0)
          /\ \/ /\ batch' = [state |-> "read", col |-> c, pairs |-> pairs,
                             read |-> BuildQuery(store[c], pairs),
                             inserted |-> {}]
                /\ result' = Pending
             \/ \E be \in Rejections :
                   /\ batch' = NoBatch
                   /\ result' = deleteDocumentsByFieldValues(
                                    store, {}, c, pairs, Undefined, be).result
    /\ UNCHANGED <<store, txState, txStaged, txBefore, authIn, authOut,
                   txRun, req>>

\* batch.delete(doc.ref) for each document of the snapshot, batch.commit():
\* the backend applies the whole batch or rejects it
BatchCommit ==
    /\ batch.state = "read"
    /\ \E be \in BackendAnswers :
          LET after == IF be = BackendOk
                       THEN batchCommit(store, batch.col, batch.read)
                       ELSE store
          IN /\ store' = after
             /\ result' = IF be = BackendOk THEN Ok(Void)
                          ELSE deleteDocumentsByFieldValues(
                                   store, {}, batch.col, batch.pairs,
                                   Undefined, be).result
             /\ last' = BatchCall(batch.col, Removed(store, after))
    /\ batch' = [batch EXCEPT !.state = "done"]
    /\ UNCHANGED <<txState, txStaged, txBefore, authIn, authOut, txRun, req>>

\* another client's write is served: the store changes, this call's result
\* does not; `inserted` keeps the ids created since the snapshot was read
Writer(st, c, created, deleted) ==
    /\ store' = st
    /\ batch' = IF batch.state = "read" /\ c = batch.col
                THEN [batch EXCEPT !.inserted = (@ \cup created) \ deleted]
                ELSE batch
    /\ UNCHANGED <<last, result, txState, txStaged, txBefore, authIn, authOut,
                   txRun, req>>

WriterCreate ==
    \E c \in Collections, id \in Ids \cup {Undefined}, data \in DocData :
        \E autoId \in AutoIds(store, c, id) :
            LET at == IF Truthy(id) THEN id ELSE autoId
            IN /\ HasRoom(store, c, at)
               /\ Writer(createDocument(store, c, data, id, BackendOk,
                                        autoId).store,
                         c, {at} \ DOMAIN store[c], {})

WriterDelete ==
    \E c \in Collections, id \in Ids :
        /\ id \in DOMAIN store[c]
        /\ Writer(deleteDocument(store, {}, c, id, Undefined,
                                 BackendOk).store,
                  c, {}, {id})

NextBatch == BatchRead \/ BatchCommit \/ WriterCreate \/ WriterDelete

SpecBatch == Init /\ [][NextBatch]_vars

\* the document d satisfies every pair of the filter
MatchesAll(d, fieldValuePairs) ==
    \A k \in 1..Len(fieldValuePairs) :
        /\ fieldValuePairs[k].fieldName \in DOMAIN d
        /\ d[fieldValuePairs[k].fieldName] = fieldValuePairs[k].fieldValue

\* C11, amended: without a transaction deleteDocumentsByFieldValues reads
\* the matching set once, when it starts, and keeps that set whatever other
\* clients write; its commit removes exactly the documents stored under the
\* ids of that read, all of them or (when the commit is rejected, with a
\* RepositoryError) none, and changes nothing else.  A document another
\* client inserted after the read under an id that was not in the read is
\* not deleted and is still stored, unchanged, when the call returns.
C11_BatchDeletesWhatItRead ==
    [][/\ (batch'.state = "read" /\ batch.state # "read") =>
            batch'.read = {i \in DOMAIN store[batch'.col] :
                              MatchesAll(store[batch'.col][i], batch'.pairs)}
       /\ (batch.state = "read") =>
            /\ batch'.read = batch.read
            /\ batch'.state = "read" => result' = Pending
            /\ batch'.state = "done" =>
                 /\ result'.status = "ok" =>
                       Without(store[batch.col], batch.read,
                               store'[batch.col])
                 /\ result'.status = "error" =>
                       /\ store' = store
                       /\ result'.error.name = "RepositoryError"
                 /\ result'.status \in {"ok", "error"}
                 /\ \A c \in Collections \ {batch.col} :
                       store'[c] = store[c]
                 /\ \A i \in batch.inserted \ batch.read :
                       /\ i \in DOMAIN store'[batch.col]
                       /\ store'[batch.col][i] = store[batch.col][i]]_vars

\* C11 as stated: every matching document inserted after the read and
\* before the commit is still stored when the call returns
C11_Original ==
    [][(batch.state = "read" /\ batch'.state = "done") =>
          \A i \in batch.inserted :
              MatchesAll(store[batch.col][i], batch.pairs) =>
                  i \in DOMAIN store'[batch.col]]_vars

\* C11 witness: the call has returned after deleting a document it read,
\* and a matching document inserted in between under another id is stored
C11_Witness ==
    /\ batch.state = "done"
    /\ result.status = "ok"
    /\ last.removed > 0
    /\ \E i \in batch.inserted \ batch.read :
          /\ i \in DOMAIN store[batch.col]
          /\ MatchesAll(store[batch.col][i], batch.pairs)


(***************************************************************************)
(* runTransaction among other clients.  db.runTransaction runs the unit of *)
(* work, and when it returns tries to commit; the commit is refused when a *)
(* document the attempt read has since been written by another client, and *)
(* the backend then drops the attempt's writes and runs the unit of work   *)
(* again, up to MaxAttempts times.                                         *)
(***************************************************************************)
\* the collections the transactions and the other clients work on
RunCollections == {COLLECTION}

RunBegin ==
    /\ txState = "idle"
    /\ txState' = "running"
    /\ txStaged' = {}
    /\ last' = TxCall
    /\ result' = Pending
    /\ txRun' = [NoRun EXCEPT !.attempt = 1]
    /\ UNCHANGED <<store, txBefore, authIn, authOut, batch, req>>

\* runTransaction settles: the caller receives r.result
RunEnd(r) ==
    /\ store' = r.store
    /\ result' = r.result
    /\ txState' = "idle"
    /\ txStaged' = {}
    /\ last' = [TxCall EXCEPT !.staged = Cardinality(txStaged),
                              !.removed = Removed(store, r.store)]
    /\ txRun' = [NoRun EXCEPT !.attempt = txRun.attempt]
    /\ UNCHANGED <<txBefore, authIn, authOut, batch, req>>

\* the unit of work calls deleteDocument(c, id, transaction): a delete is
\* staged, nothing is read
RunDeleteDocument ==
    /\ txState = "running"
    /\ \E c \in RunCollections, id \in Ids :
        LET r == deleteDocument(store, txStaged, c, id, Transaction,
                                BackendOk)
        IN /\ txStaged' = r.staged
           /\ txStaged' # txStaged
           /\ UNCHANGED <<store, last, result, txState, txBefore, aside>>

\* the unit of work calls deleteDocumentsByFieldValues(c, pairs, transaction)
\* and lets an error of that call propagate; `seen` keeps the documents as
\* the unit of work saw them
RunDeleteDocumentsByFieldValues ==
    /\ txState = "running"
    /\ \E c \in RunCollections, pairs \in BatchFilters, be \in BackendAnswers :
        LET r == deleteDocumentsByFieldValues(store, txStaged, c, pairs,
                                              Transaction, be)
            matching == BuildQuery(store[c], pairs)
            new == {<<c, i>> : i \in matching} \ DOMAIN txRun.seen
        IN IF r.result.status = "ok"
           THEN /\ txStaged' = r.staged
                /\ txRun' = [txRun EXCEPT
                       !.reads = transactionGet(@, c, matching),
                       !.seen = [ref \in DOMAIN @ \cup new |->
                                    IF ref \in new THEN store[c][ref[2]]
                                    ELSE @[ref]]]
                /\ txRun' # txRun
                /\ UNCHANGED <<store, last, result, txState, txBefore,
                               authIn, authOut, batch, req>>
           ELSE RunEnd(runTransaction(store, txStaged, r.result.error,
                                      BackendOk))

\* the unit of work returns and the backend tries to commit: a rejected
\* commit fails the call; a commit that conflicts with another client's
\* write makes the backend run the unit of work again, or fail the call
\* when the attempts are used up
RunReturn ==
    /\ txState = "running"
    /\ \/ \E be \in Rejections :
             RunEnd(runTransaction(store, txStaged, NoError, be))
       \/ /\ txRun.stale
          /\ txRun.attempt < MaxAttempts
          /\ txStaged' = {}
          /\ txRun' = [NoRun EXCEPT !.attempt = txRun.attempt + 1]
          /\ UNCHANGED <<store, last, result, txState, txBefore, authIn,
                         authOut, batch, req>>
       \/ /\ txRun.stale
          /\ txRun.attempt >= MaxAttempts
          /\ RunEnd(runTransaction(store, txStaged, NoError, AbortedRaw))
       \/ /\ ~txRun.stale
          /\ RunEnd(runTransaction(store, txStaged, NoError, BackendOk))

\* the unit of work raises
RunRaise ==
    /\ txState = "running"
    /\ RunEnd(runTransaction(store, txStaged, UnitOfWorkRaw, BackendOk))

\* another client's write to the document (c, id) is committed
OtherCommit(st, c, id) ==
    /\ store' = st
    /\ store' # store
    /\ txRun' = IF <<c, id>> \in txRun.reads
                THEN [txRun EXCEPT !.stale = TRUE] ELSE txRun
    /\ UNCHANGED <<last, result, txState, txStaged, txBefore, authIn,
                   authOut, batch, req>>

OtherCreate ==
    \E c \in RunCollections, id \in Ids, data \in DocData :
        /\ HasRoom(store, c, id)
        /\ OtherCommit(createDocument(store, c, data, id, BackendOk,
                                      Undefined).store, c, id)

OtherUpdate ==
    \E c \in RunCollections, id \in Ids, data \in DocData :
        OtherCommit(updateDocument(store, c, id, data, BackendOk).store,
                    c, id)

OtherDelete ==
    \E c \in RunCollections, id \in Ids :
        OtherCommit(deleteDocument(store, {}, c, id, Undefined,
                                   BackendOk).store, c, id)

NextRun ==
    \/ RunBegin
    \/ RunDeleteDocument
    \/ RunDeleteDocumentsByFieldValues
    \/ RunReturn
    \/ RunRaise
    \/ OtherCreate
    \/ OtherUpdate
    \/ OtherDelete

SpecRun == Init /\ [][NextRun]_vars

\* C12: among other clients' writes, runTransaction may run its unit of
\* work more than once, and a call that succeeds applies its staged writes
\* once: the step that ends the call removes exactly the documents staged
\* by the attempt that ended it and changes nothing else; no other step of
\* the call, in particular the one that drops an attempt and starts the
\* next, changes a collection; and every document that attempt read is, at
\* the commit, still as the attempt read it, so no other client's write to
\* it is lost.  A call that fails changes nothing and fails with a
\* RepositoryError.
C12_CommitOnceUnlessInvalidated ==
    [][txState = "running" =>
        /\ (txStaged' # txStaged \/ txRun'.attempt # txRun.attempt) /\
           txState' = "running" =>
              store' = store
        /\ txRun'.attempt # txRun.attempt =>
              /\ txRun'.attempt = txRun.attempt + 1
              /\ txRun'.attempt <= MaxAttempts
              /\ txStaged' = {}
              /\ txState' = "running"
        /\ txState' = "idle" /\ result'.status = "ok" =>
              /\ \A c \in Collections :
                    Without(store[c], {i \in Ids : <<c, i>> \in txStaged},
                            store'[c])
              /\ \A ref \in DOMAIN txRun.seen :
                    /\ ref[2] \in DOMAIN store[ref[1]]
                    /\ store[ref[1]][ref[2]] = txRun.seen[ref]
        /\ txState' = "idle" /\ result'.status # "ok" =>
              /\ store' = store
              /\ result'.status = "error"
              /\ result'.error.name = "RepositoryError"]_vars

\* C12 witness: a runTransaction call has succeeded on a later attempt and
\* removed a document
C12_Witness ==
    /\ last.op = "runTransaction"
    /\ txState = "idle"
    /\ result.status = "ok"
    /\ txRun.attempt > 1
    /\ last.removed > 0


(***************************************************************************)
(* itemRoutes.ts and itemController.ts: a request on the item routes goes  *)
(* through the handlers registered for its route, in order; a handler      *)
(* either passes the request on or answers it, and then no later handler   *)
(* runs.                                                                   *)
(***************************************************************************)
Routes == {"GET /", "POST /", "PUT /:id", "DELETE /:id"}

Handler(name, arg) == [name |-> name, arg |-> arg]

\* DELETE /:id is registered without isAuthorized
Pipeline_unguarded(route) ==
    CASE route = "GET /" ->
            <<Handler("authenticate", Undefined),
              Handler("getAllItems", Undefined)>>
      [] route = "POST /" ->
            <<Handler("authenticate", Undefined),
              Handler("isAuthorized", [hasRole |-> {"admin", "manager"}]),
              Handler("validateRequest", "itemSchema"),
              Handler("createItem", Undefined)>>
      [] route = "PUT /:id" ->
            <<Handler("authenticate", Undefined),
              Handler("isAuthorized", [hasRole |-> {"admin", "manager"},
                                       allowSameUser |-> TRUE]),
              Handler("validateRequest", "itemSchema"),
              Handler("updateItem", Undefined)>>
      [] route = "DELETE /:id" ->
            <<Handler("authenticate", Undefined),
              Handler("validateRequest", "deleteItemSchema"),
              Handler("deleteItem", Undefined)>>

\* router.get / router.post / router.put / router.delete
Pipeline(route) ==
    CASE route = "GET /" ->
            <<Handler("authenticate", Undefined),
              Handler("getAllItems", Undefined)>>
      [] route = "POST /" ->
            <<Handler("authenticate", Undefined),
              Handler("isAuthorized", [hasRole |-> {"admin", "manager"}]),
              Handler("validateRequest", "itemSchema"),
              Handler("createItem", Undefined)>>
      [] route = "PUT /:id" ->
            <<Handler("authenticate", Undefined),
              Handler("isAuthorized", [hasRole |-> {"admin", "manager"},
                                       allowSameUser |-> TRUE]),
              Handler("validateRequest", "itemSchema"),
              Handler("updateItem", Undefined)>>
      [] route = "DELETE /:id" ->
            <<Handler("authenticate", Undefined),
              Handler("isAuthorized", [hasRole |-> {"admin", "manager"}]),
              Handler("validateRequest", "deleteItemSchema"),
              Handler("deleteItem", Undefined)>>

\* the requests: `credentials` is the subject the credentials of the request
\* stand for, or NoSubject when they are missing or not valid; `id` is
\* req.params.id; `valid` tells whether the request satisfies the schema of
\* its route
NoSubject == [id |-> Undefined, roles |-> {}]
RouteSubjects == [id : {"u1", "a"}, roles : {{"user"}, {"manager"}}]
RouteBodies == {d \in DocData : DOMAIN d = {"status"}}
RouteParams(route) ==
    IF route \in {"PUT /:id", "DELETE /:id"} THEN Ids ELSE {Undefined}

Receive ==
    /\ req.at = 0
    /\ \E route \in Routes, credentials \in RouteSubjects \cup {NoSubject},
          body \in RouteBodies, valid \in BOOLEAN :
          \E id \in RouteParams(route) :
              req' = [route |-> route, credentials |-> credentials,
                      id |-> id, body |-> body, valid |-> valid, at |-> 1,
                      passed |-> <<>>]
    /\ result' = Pending
    /\ UNCHANGED <<store, last, txState, txStaged, txBefore, authIn, authOut,
                   batch, txRun>>

\* the handler the request has reached
Current == Pipeline(req.route)[req.at]

\* next(): the request goes on to the following handler
Pass ==
    /\ req' = [req EXCEPT !.at = @ + 1, !.passed = Append(@, Current.name)]
    /\ UNCHANGED <<store, last, result, txState, txStaged, txBefore, authIn,
                   authOut, batch, txRun>>

\* the request is answered (res.json, or next(error) and the error
\* handler): no later handler runs
Respond(st, r) ==
    /\ req' = [req EXCEPT !.at = 0]
    /\ store' = st
    /\ result' = r
    /\ UNCHANGED <<last, txState, txStaged, txBefore, authIn, authOut, batch,
                   txRun>>

Authenticate ==
    /\ req.at > 0
    /\ Current.name = "authenticate"
    /\ IF req.credentials # NoSubject THEN Pass
       ELSE Respond(store, Fail(AuthenticationError(
                <<"Unauthorized: invalid credentials">>, "UNAUTHORIZED")))

IsAuthorized ==
    /\ req.at > 0
    /\ Current.name = "isAuthorized"
    /\ LET r == authorize(req.credentials, Current.arg, req.id)
       IN IF r.status = "ok" THEN Pass ELSE Respond(store, r)

ValidateRequest ==
    /\ req.at > 0
    /\ Current.name = "validateRequest"
    /\ IF req.valid THEN Pass
       ELSE Respond(store, Fail([name |-> "Error",
                                 message |-> <<"Validation error">>,
                                 code |-> "VALIDATION_ERROR",
                                 statusCode |-> 400]))

\* the controller calls the item service and answers with its result or
\* hands its error to the error handler
Controller ==
    /\ req.at > 0
    /\ \/ /\ Current.name = "getAllItems"
          /\ \E be \in BackendAnswers :
                LET r == getAllItems(store, be)
                IN Respond(r.store, r.result)
       \/ /\ Current.name = "createItem"
          /\ \E be \in BackendAnswers :
             \E autoId \in Ids \ DOMAIN store[COLLECTION] :
                /\ HasRoom(store, COLLECTION, autoId)
                /\ LET r == createItem(store, req.body, be, autoId)
                   IN Respond(r.store, r.result)
       \/ /\ Current.name = "updateItem"
          /\ \E be \in BackendAnswers :
                LET r == updateItem(store, req.id, req.body, be)
                IN Respond(r.store, r.result)
       \/ /\ Current.name = "deleteItem"
          /\ \E be \in BackendAnswers :
                LET r == deleteItem(store, req.id, be)
                IN Respond(r.store, r.result)

NextRoutes ==
    Receive \/ Authenticate \/ IsAuthorized \/ ValidateRequest \/ Controller

SpecRoutes == Init /\ [][NextRoutes]_vars

\* the subject may write items: it has the admin or the manager role, or,
\* on PUT /:id alone, its id is the id in the path
MayWrite(route, subject, id) ==
    \/ subject.roles \cap {"admin", "manager"} # {}
    \/ route = "PUT /:id" /\ subject.id = id

\* C13: on the item routes a step changes the store only for a POST /,
\* PUT /:id or DELETE /:id request that has passed authenticate, then the
\* access-control check, then validation, in that order, whose credentials
\* are valid and whose subject may write (admin or manager role; on
\* PUT /:id alone also the subject whose id is the id in the path); only
\* the items collection changes.  The access-control check is passed only
\* right after authenticate and only by a subject that may write.  GET /
\* runs its controller right after authenticate, whatever the roles, and
\* changes nothing.
C13_WritesAreGated ==
    [][/\ store' # store =>
            /\ req.route \in {"POST /", "PUT /:id", "DELETE /:id"}
            /\ req.passed =
                  <<"authenticate", "isAuthorized", "validateRequest">>
            /\ req.credentials # NoSubject
            /\ MayWrite(req.route, req.credentials, req.id)
            /\ \A c \in Collections \ {COLLECTION} : store'[c] = store[c]
       /\ (req.at > 0 /\ req'.passed # req.passed) =>
            /\ req'.passed = Append(req.passed, Current.name)
            /\ Current.name = "authenticate" => req.passed = <<>>
            /\ Current.name = "isAuthorized" =>
                  /\ req.passed = <<"authenticate">>
                  /\ req.credentials # NoSubject
                  /\ MayWrite(req.route, req.credentials, req.id)
            /\ Current.name = "validateRequest" =>
                  req.passed = <<"authenticate", "isAuthorized">>
       /\ (req.route = "GET /" /\ req.at = 2) =>
            /\ req.passed = <<"authenticate">>
            /\ req.credentials # NoSubject
            /\ store' = store
            /\ result'.status = "ok" => result'.value.kind = "items"]_vars

\* C13 witness: a PUT /:id request of a subject without the admin or the
\* manager role has passed the three handlers under the same-user exception
\* and its controller has updated the item
C13_Witness ==
    /\ req.route = "PUT /:id"
    /\ req.at = 0
    /\ req.passed = <<"authenticate", "isAuthorized", "validateRequest">>
    /\ req.credentials # NoSubject
    /\ req.credentials.roles = {"user"}
    /\ result.status = "ok"
    /\ req.id \in DOMAIN store[COLLECTION]
    /\ store[COLLECTION][req.id] = req.body

====
